---- MODULE Spec2Model ----
(***************************************************************************)
(* Model of the snapshot replay harness (src/unnamed/part_000):            *)
(* ConcurrencyLimiter, processContent, processNodeForValidate,             *)
(* processNodeForWrite, processNode and cleanFailedSnapshots.              *)
(*                                                                         *)
(* JavaScript runs one callback to completion, so every action below is    *)
(* the code between two suspension points of the orchestrator, or one      *)
(* event handler of a worker thread.  The two loops (over the corpus and   *)
(* over the archived versions) are split at their iterations; this only    *)
(* adds interleavings of worker events between iterations.                 *)
(***************************************************************************)
EXTENDS Integers, Sequences, FiniteSets, TLC

\* ---------------------------------------------------------------- bounds
NumEntries == 3
MaxCapacity == 2
MaxRuns == 3

\* a folder of the corpus holds at most two archived versions
MaxJobs == 2 * NumEntries

\* ------------------------------------------------------------- constants
StressSnapFreq == 50
DefaultSnapFreq == 1000

Modes == {"Write", "Compare", "Stress", "Validate"}

pkgVersion == "pkg"
StampFile == "snapshotVersion.json"
SnapFile == "snapshot.json"
OldFile == "old.json"
StrayFile == "README"

\* directory listing order of the version folders (fs.readdirSync)
VersionOrder == <<"pkg", "undefined", "v1", "v2">>

NoFiles == [n \in {} |-> ""]
NoArch == [v \in {} |-> NoFiles]
NoPath == <<>>
\* the exit code of a worker thread that has not exited
NoCode == -1

VARIABLES
    mode,          \* processContent(mode, ...)
    concurrently,  \* processContent(..., concurrently) and worker_threads available
    capacity,      \* new ConcurrencyLimiter(limit)
    disk,          \* the corpus directory: one record per entry
    pc,            \* where the orchestrator is suspended
    i,             \* index of the corpus entry of the current iteration
    vq,            \* entries of src_snapshots still to iterate (Validate)
    data,          \* the IWorkerArgs record of the current folder
    result,        \* state of the promise returned by processContent
    error,         \* what it was rejected with
    limit,         \* ConcurrencyLimiter.limit
    deferred,      \* ConcurrencyLimiter.deferred
    resolved,      \* the deferred's promise is resolved, continuation queued
    promises,      \* ConcurrencyLimiter.promises (indices into jobs)
    jobs,          \* the replay jobs started so far
    run,           \* which call of processContent on this corpus this is
    second         \* an addWork call made while another one is suspended

vars == <<mode, concurrently, capacity, disk, pc, i, vq, data, result, error,
          limit, deferred, resolved, promises, jobs, run, second>>

\* -------------------------------------------------------------- the disk
Entry(isDir, hasMsg, cur, files, failed, src, arch, stray) ==
    [isDir |-> isDir, hasMsg |-> hasMsg, cur |-> cur, files |-> files,
     failed |-> failed, src |-> src, arch |-> arch, stray |-> stray]

Baseline(v) == (StampFile :> v) @@ (SnapFile :> "new")
Archived(v) == (StampFile :> v) @@ (SnapFile :> "old") @@ (OldFile :> "old")

\* a plain file in the corpus directory
KNotDir == Entry(FALSE, FALSE, FALSE, NoFiles, "absent", FALSE, NoArch, FALSE)
\* a folder without messages.json, holding everything a run could touch
KNoMsg == Entry(TRUE, FALSE, TRUE, Baseline("v1"), "files", TRUE,
                ("v1" :> Archived("v1")), FALSE)
KPlain == Entry(TRUE, TRUE, TRUE, Baseline("v1"), "absent", FALSE, NoArch, FALSE)
KFailed == Entry(TRUE, TRUE, TRUE, Baseline("v1"), "files", FALSE, NoArch, FALSE)
KFailedDir == Entry(TRUE, TRUE, TRUE, Baseline("v1"), "mixed", FALSE, NoArch, FALSE)
KNoCur == Entry(TRUE, TRUE, FALSE, NoFiles, "absent", FALSE, NoArch, FALSE)
KNoStamp == Entry(TRUE, TRUE, TRUE, (SnapFile :> "new"), "absent", FALSE, NoArch, FALSE)
KArch1 == Entry(TRUE, TRUE, TRUE, Baseline("v1"), "absent", TRUE,
                ("v1" :> Archived("v1")), FALSE)
KArch2 == Entry(TRUE, TRUE, TRUE, Baseline("v2"), "absent", TRUE,
                ("v1" :> Archived("v1")) @@ ("v2" :> Archived("v2")), TRUE)
KCurrent == Entry(TRUE, TRUE, TRUE, Baseline(pkgVersion), "absent", TRUE,
                  ("v1" :> Archived("v1")), FALSE)

Kinds(m) ==
    CASE m = "Write" -> {KNoMsg, KPlain, KNoCur, KNoStamp, KArch1, KCurrent}
      [] m = "Validate" -> {KNoMsg, KPlain, KArch1, KArch2}
      [] m = "Stress" -> {KNotDir, KFailed, KFailedDir}
      [] OTHER -> {KNotDir, KNoMsg, KPlain, KFailed, KNoCur}

\* ------------------------------------------------------ pure file helpers
\* the check for messages.json is left out
Eligible_NoLogCheck(e) == e.isDir

\* processContent: node.isDirectory() and fs.existsSync(messages)
Eligible(e) == e.isDir /\ e.hasMsg

\* every mode snapshots at the interval of the compatibility runs
SnapFreq_Default(m) == DefaultSnapFreq

\* processContent: `mode === Mode.Stress ? 50 : 1000`
SnapFreq(m) == IF m = "Stress" THEN StressSnapFreq ELSE DefaultSnapFreq

\* cleanFailedSnapshots: unlink the files of FailedSnapshots, then rmdirSync,
\* which throws when a subdirectory is left in it
cleanFailedSnapshots(e) ==
    IF ~e.cur \/ e.failed = "absent"
    THEN [e |-> e, threw |-> FALSE]
    ELSE IF e.failed = "files"
         THEN [e |-> [e EXCEPT !.failed = "absent"], threw |-> FALSE]
         ELSE [e |-> [e EXCEPT !.failed = "dirs"], threw |-> TRUE]

\* the assertion on the version file is left out
WritePrecondition_DirOnly(e) == e.cur

\* the two assertions at the head of processNodeForWrite
WritePrecondition(e) == e.cur /\ StampFile \in DOMAIN e.files

\* the archive folder is named after the running build, not after the stamp
StampVersion_Build(e) == pkgVersion

\* processNodeForWrite: versionContent.snapshotVersion of the version file
StampVersion(e) ==
    IF StampFile \in DOMAIN e.files THEN e.files[StampFile] ELSE "undefined"

\* a file that exists in the target is appended to, not replaced
CopyInto_Append(old, files) ==
    [n \in DOMAIN old \cup DOMAIN files |->
        IF n \in DOMAIN files
        THEN (IF n \in DOMAIN old THEN "appended" ELSE files[n])
        ELSE old[n]]

\* fs.copyFileSync of every file of current_snapshots, overwriting by name
CopyInto(old, files) ==
    [n \in DOMAIN old \cup DOMAIN files |->
        IF n \in DOMAIN files THEN files[n] ELSE old[n]]

\* the archive folder is created but the copy loop is left out
Migrate_NoCopy(e) ==
    LET v == StampVersion(e)
    IN [e EXCEPT !.src = TRUE,
                 !.arch = [w \in DOMAIN e.arch \cup {v} |->
                              IF w \in DOMAIN e.arch THEN e.arch[w] ELSE NoFiles]]

\* processNodeForWrite up to the call of processNode: mkdirSync(recursive)
\* and the copy loop
Migrate(e) ==
    LET v == StampVersion(e)
        old == IF v \in DOMAIN e.arch THEN e.arch[v] ELSE NoFiles
    IN [e EXCEPT !.src = TRUE,
                 !.arch = [w \in DOMAIN e.arch \cup {v} |->
                              IF w = v THEN CopyInto(old, e.files) ELSE e.arch[w]]]

\* fs.writeFileSync(versionFileName, {snapshotVersion: pkgVersion})
WriteStamp(e) ==
    [e EXCEPT !.files = CopyInto(e.files, (StampFile :> pkgVersion))]

\* fs.readdirSync(srcSnapshotsFolder, {withFileTypes: true})
Listing(e) ==
    (IF e.stray THEN <<[name |-> StrayFile, isDir |-> FALSE]>> ELSE <<>>)
    \o [k \in 1..Len(SelectSeq(VersionOrder, LAMBDA v: v \in DOMAIN e.arch)) |->
          [name |-> SelectSeq(VersionOrder, LAMBDA v: v \in DOMAIN e.arch)[k],
           isDir |-> TRUE]]

\* every entry of src_snapshots is taken for a version folder
IsVersionFolder_Any(node) == TRUE

\* processNodeForValidate: `if (!node.isDirectory()) continue`
IsVersionFolder(node) == node.isDir

\* `${srcSnapshotsFolder}/${node.name}` of folder f
VersionDir(f, name) == <<f, "src_snapshots", name>>

\* ------------------------------------------------------------ the limiter
\* the admission waits one job too late
MustWait_Late(l) == l < -1

\* addWork: `if (this.limit < 0)` after the decrement
MustWait(l) == l < 0

\* the assertion before the wait is left out
CanWait_Always(d) == TRUE

\* addWork: `assert(this.deferred === undefined)` before the wait
CanWait(d) == d = "undefined"

\* the counter is not incremented
Release_NoIncrement(l, d) ==
    IF d = "pending"
    THEN IF l = 0
         THEN [limit |-> l, deferred |-> "undefined", resolve |-> TRUE, threw |-> FALSE]
         ELSE [limit |-> l, deferred |-> d, resolve |-> FALSE, threw |-> TRUE]
    ELSE [limit |-> l, deferred |-> d, resolve |-> FALSE, threw |-> FALSE]

\* the resolved continuation is not cleared
Release_NoClear(l, d) ==
    IF d = "pending"
    THEN IF l + 1 = 0
         THEN [limit |-> l + 1, deferred |-> d, resolve |-> TRUE, threw |-> FALSE]
         ELSE [limit |-> l + 1, deferred |-> d, resolve |-> FALSE, threw |-> TRUE]
    ELSE [limit |-> l + 1, deferred |-> d, resolve |-> FALSE, threw |-> FALSE]

\* the then-callback of addWork: limit++, and with a continuation pending
\* assert(limit === 0), resolve it and clear it
Release(l, d) ==
    IF d = "pending"
    THEN IF l + 1 = 0
         THEN [limit |-> l + 1, deferred |-> "undefined", resolve |-> TRUE, threw |-> FALSE]
         ELSE [limit |-> l + 1, deferred |-> d, resolve |-> FALSE, threw |-> TRUE]
    ELSE [limit |-> l + 1, deferred |-> d, resolve |-> FALSE, threw |-> FALSE]

\* a nonzero exit code is taken for success
ExitOutcome_Always(code) == "fulfilled"

\* worker.on("exit"): `if (code !== 0) reject(...)`, then `resolve()`
ExitOutcome(code) == IF code # 0 THEN "rejected" ELSE "fulfilled"

\* Promise.allSettled in place of Promise.all
PromiseAll_Settled(ps) ==
    IF \A k \in 1..Len(ps) : ps[k] # "pending" THEN "fulfilled" ELSE "pending"

\* Promise.all over the limiter's promises
PromiseAll(ps) ==
    IF \E k \in 1..Len(ps) : ps[k] = "rejected" THEN "rejected"
    ELSE IF \A k \in 1..Len(ps) : ps[k] = "fulfilled" THEN "fulfilled"
    ELSE "pending"

PromiseStates == [k \in 1..Len(promises) |-> jobs[promises[k]].p]

\* processOneFile: replayArgs.inDirName and replayArgs.outDirName
InDirName(args) == <<args.folder>>
OutDirName(args) == <<args.folder, "current_snapshots">>

\* processOneFile: the ReplayArgs built from the args of the job
replayArgs(args) ==
    [inDirName |-> InDirName(args),
     outDirName |-> OutDirName(args),
     snapFreq |-> args.snapFreq,
     write |-> args.mode = "Write",
     compare |-> args.mode = "Compare",
     expandFiles |-> args.mode = "Stress",
     initializeFromSnapshotsDir |-> args.init]

\* the worker data handed to new threads.Worker, or the args of processOneFile
NewJob(dat, thread) ==
    [folder |-> dat.folder, mode |-> dat.mode, snapFreq |-> dat.snapFreq,
     init |-> dat.init, fut |-> "pending", p |-> "pending", thread |-> thread,
     code |-> NoCode]

TypeOK ==
    /\ mode \in Modes
    /\ concurrently \in BOOLEAN
    /\ capacity \in 1..MaxCapacity
    /\ pc \in {"loop", "validate", "addWork", "inline", "waitAll", "done"}
    /\ i \in 1..(NumEntries + 1)
    /\ result \in {"pending", "fulfilled", "rejected"}
    /\ error \in {"none", "assert", "fs", "job", "assert57", "assert60", "assert61"}
    /\ run \in 1..MaxRuns
    /\ second \in {"none", "rejected", "waiting", "started"}
    /\ limit \in -2..capacity
    /\ deferred \in {"undefined", "pending"}
    /\ resolved \in BOOLEAN
    /\ \A k \in 1..Len(jobs) :
          /\ jobs[k].fut \in {"pending", "fulfilled", "rejected"}
          /\ jobs[k].p \in {"pending", "fulfilled", "rejected"}
          /\ jobs[k].thread \in {"inline", "running", "exited"}
          /\ jobs[k].code \in {NoCode, 0, 1}

Init ==
    /\ mode \in Modes
    /\ concurrently \in BOOLEAN
    /\ capacity \in 1..MaxCapacity
    /\ disk \in [1..NumEntries -> Kinds(mode)]
    /\ pc = "loop"
    /\ i = 1
    /\ vq = <<>>
    /\ data = [folder |-> 0, mode |-> mode, snapFreq |-> SnapFreq(mode), init |-> NoPath]
    /\ result = "pending"
    /\ error = "none"
    /\ limit = capacity
    /\ deferred = "undefined"
    /\ resolved = FALSE
    /\ promises = <<>>
    /\ jobs = <<>>
    /\ run = 1
    /\ second = "none"

\* ------------------------------------------------------------ orchestrator
\* an error escapes processContent: its promise rejects
Throw(kind) ==
    /\ pc' = "done"
    /\ result' = "rejected"
    /\ error' = kind

\* processNode has returned to its caller, which runs on to the next
\* iteration: processNodeForWrite rewrites the version stamp and returns,
\* processNodeForValidate goes on with its loop
ReturnFromNode(d) ==
    CASE mode = "Write" ->
            /\ disk' = [d EXCEPT ![i] = WriteStamp(d[i])]
            /\ pc' = "loop"
            /\ i' = i + 1
      [] mode = "Validate" ->
            /\ disk' = d
            /\ pc' = "validate"
            /\ i' = i
      [] OTHER ->
            /\ disk' = d
            /\ pc' = "loop"
            /\ i' = i + 1

\* addWork from `const p = worker().then(...)`: the worker thread is created
\* with a clone of the args and p is pushed
StartWorker(dat) ==
    /\ jobs' = Append(jobs, NewJob(dat, "running"))
    /\ promises' = Append(promises, Len(jobs) + 1)

\* processNode(data, concurrently, limiter), entered with the disk as d
processNode(d, dat) ==
    /\ data' = dat
    /\ UNCHANGED resolved
    /\ IF ~concurrently
       THEN \* await processOneFile(data)
            /\ jobs' = Append(jobs, NewJob(dat, "inline"))
            /\ pc' = "inline"
            /\ disk' = d
            /\ UNCHANGED <<i, limit, deferred, promises, result, error>>
       ELSE \* limiter.addWork
            /\ limit' = limit - 1
            /\ IF MustWait(limit - 1)
               THEN \* assert(this.deferred === undefined), then wait
                    /\ disk' = d
                    /\ UNCHANGED <<i, jobs, promises>>
                    /\ IF CanWait(deferred)
                       THEN /\ deferred' = "pending"
                            /\ pc' = "addWork"
                            /\ UNCHANGED <<result, error>>
                       ELSE /\ Throw("assert57")
                            /\ UNCHANGED deferred
               ELSE /\ StartWorker(dat)
                    /\ ReturnFromNode(d)
                    /\ UNCHANGED <<deferred, result, error>>

\* processContent: an entry that is no directory or has no messages.json
SkipEntry ==
    /\ pc = "loop"
    /\ i <= NumEntries
    /\ ~Eligible(disk[i])
    /\ i' = i + 1
    /\ UNCHANGED <<run, second, mode, concurrently, capacity, disk, pc, vq, data, result, error,
                   limit, deferred, resolved, promises, jobs>>

\* processContent: one iteration for an eligible folder, up to the first
\* suspension
ProcessEntry ==
    /\ pc = "loop"
    /\ i <= NumEntries
    /\ Eligible(disk[i])
    /\ UNCHANGED <<run, second, mode, concurrently, capacity>>
    /\ LET c == cleanFailedSnapshots(disk[i])
           d == [disk EXCEPT ![i] = c.e]
           dat == [folder |-> i, mode |-> mode, snapFreq |-> SnapFreq(mode),
                   init |-> NoPath]
       IN IF c.threw
          THEN /\ Throw("fs")
               /\ disk' = d
               /\ UNCHANGED <<i, vq, data, limit, deferred, resolved, promises, jobs>>
          ELSE CASE mode = "Validate" ->
                    \* processNodeForValidate up to its loop
                    /\ disk' = d
                    /\ data' = dat
                    /\ IF ~d[i].src
                       THEN pc' = "loop" /\ i' = i + 1 /\ vq' = <<>>
                       ELSE pc' = "validate" /\ i' = i /\ vq' = Listing(d[i])
                    /\ UNCHANGED <<result, error, limit, deferred, resolved,
                                   promises, jobs>>
                 [] mode = "Write" ->
                    IF ~WritePrecondition(d[i])
                    THEN /\ Throw("assert")
                         /\ disk' = d
                         /\ UNCHANGED <<i, vq, data, limit, deferred, resolved,
                                        promises, jobs>>
                    ELSE /\ processNode([d EXCEPT ![i] = Migrate(d[i])], dat)
                         /\ UNCHANGED vq
                 [] OTHER ->
                    /\ processNode(d, dat)
                    /\ UNCHANGED vq

\* processNodeForValidate: one iteration of the loop over src_snapshots
ValidateStep ==
    /\ pc = "validate"
    /\ UNCHANGED <<run, second, mode, concurrently, capacity>>
    /\ IF vq = <<>>
       THEN /\ pc' = "loop"
            /\ i' = i + 1
            /\ UNCHANGED <<disk, vq, data, result, error, limit, deferred,
                           resolved, promises, jobs>>
       ELSE IF ~IsVersionFolder(Head(vq))
       THEN /\ vq' = Tail(vq)
            /\ UNCHANGED <<disk, pc, i, data, result, error, limit, deferred,
                           resolved, promises, jobs>>
       ELSE /\ vq' = Tail(vq)
            /\ processNode(disk, [data EXCEPT !.init = VersionDir(i, Head(vq).name)])

\* addWork resumes after `await this.deferred.promise`
Resume ==
    /\ pc = "addWork"
    /\ resolved
    /\ resolved' = FALSE
    /\ UNCHANGED <<run, second, mode, concurrently, capacity, vq, data, limit, deferred>>
    /\ IF deferred # "undefined"
       THEN /\ Throw("assert60")
            /\ UNCHANGED <<disk, i, promises, jobs>>
       ELSE IF limit < 0
       THEN /\ Throw("assert61")
            /\ UNCHANGED <<disk, i, promises, jobs>>
       ELSE /\ StartWorker(data)
            /\ ReturnFromNode(disk)
            /\ UNCHANGED <<result, error>>

\* processOneFile settles in inline mode
InlineDone(ok) ==
    /\ pc = "inline"
    /\ UNCHANGED <<run, second, mode, concurrently, capacity, vq, data, limit, deferred,
                   resolved, promises>>
    /\ LET j == Len(jobs)
       IN IF ok
          THEN /\ jobs' = [jobs EXCEPT ![j].fut = "fulfilled", ![j].p = "fulfilled"]
               /\ ReturnFromNode(disk)
               /\ UNCHANGED <<result, error>>
          ELSE /\ jobs' = [jobs EXCEPT ![j].fut = "rejected", ![j].p = "rejected"]
               /\ Throw("job")
               /\ UNCHANGED <<disk, i>>

\* processContent: `return limiter.waitAll()`
WaitAll ==
    /\ pc = "loop"
    /\ i > NumEntries
    /\ pc' = "waitAll"
    /\ UNCHANGED <<run, second, mode, concurrently, capacity, disk, i, vq, data, result, error,
                   limit, deferred, resolved, promises, jobs>>

\* the promise of Promise.all settles, and processContent with it
WaitAllSettle ==
    /\ pc = "waitAll"
    /\ PromiseAll(PromiseStates) # "pending"
    /\ pc' = "done"
    /\ result' = PromiseAll(PromiseStates)
    /\ error' = IF PromiseAll(PromiseStates) = "rejected" THEN "job" ELSE "none"
    /\ UNCHANGED <<run, second, mode, concurrently, capacity, disk, i, vq, data,
                   limit, deferred, resolved, promises, jobs>>

\* ---------------------------------------------------------- worker events
\* reject(...) of the job's promise: p rejects with it, the then-callback of
\* addWork does not run
Reject(j) ==
    /\ jobs' = [jobs EXCEPT ![j].fut = IF @ = "pending" THEN "rejected" ELSE @,
                            ![j].p = IF @ = "pending" THEN "rejected" ELSE @]
    /\ UNCHANGED <<limit, deferred, resolved>>

\* worker.on("message")
OnMessage(j) ==
    /\ j \in 1..Len(jobs)
    /\ jobs[j].thread = "running"
    /\ Reject(j)
    /\ UNCHANGED <<run, second, mode, concurrently, capacity, disk, pc, i, vq, data, result,
                   error, promises>>

\* worker.on("error")
OnError(j) ==
    /\ j \in 1..Len(jobs)
    /\ jobs[j].thread = "running"
    /\ Reject(j)
    /\ UNCHANGED <<run, second, mode, concurrently, capacity, disk, pc, i, vq, data, result,
                   error, promises>>

\* worker.on("exit"): reject on a nonzero code, then resolve(); a resolve of the
\* pending promise runs the then-callback of addWork
OnExit(j, code) ==
    /\ j \in 1..Len(jobs)
    /\ jobs[j].thread = "running"
    /\ UNCHANGED <<run, second, mode, concurrently, capacity, disk, pc, i, vq, data,
                   result, error, promises>>
    /\ IF jobs[j].fut # "pending"
       THEN /\ jobs' = [jobs EXCEPT ![j].thread = "exited", ![j].code = code]
            /\ UNCHANGED <<limit, deferred, resolved>>
       ELSE IF ExitOutcome(code) = "rejected"
       THEN /\ jobs' = [jobs EXCEPT ![j].fut = "rejected", ![j].p = "rejected",
                                    ![j].thread = "exited", ![j].code = code]
            /\ UNCHANGED <<limit, deferred, resolved>>
       ELSE LET r == Release(limit, deferred)
            IN /\ limit' = r.limit
               /\ deferred' = r.deferred
               /\ resolved' = (resolved \/ r.resolve)
               /\ jobs' = [jobs EXCEPT ![j].fut = "fulfilled",
                                       ![j].p = IF r.threw THEN "rejected" ELSE "fulfilled",
                                       ![j].thread = "exited", ![j].code = code]

Next ==
    \/ SkipEntry
    \/ ProcessEntry
    \/ ValidateStep
    \/ Resume
    \/ \E ok \in BOOLEAN : InlineDone(ok)
    \/ WaitAll
    \/ WaitAllSettle
    \/ \E j \in 1..MaxJobs : OnMessage(j)
    \/ \E j \in 1..MaxJobs : OnError(j)
    \/ \E j \in 1..MaxJobs, code \in {0, 1} : OnExit(j, code)

Spec == Init /\ [][Next]_vars

\* processContent is called again on the same corpus after a run that
\* fulfilled: a new limiter, the disk as the last run left it
RunAgain ==
    /\ pc = "done"
    /\ result = "fulfilled"
    /\ run < MaxRuns
    /\ run' = run + 1
    /\ pc' = "loop"
    /\ i' = 1
    /\ vq' = <<>>
    /\ data' = [folder |-> 0, mode |-> mode, snapFreq |-> SnapFreq(mode), init |-> NoPath]
    /\ result' = "pending"
    /\ error' = "none"
    /\ limit' = capacity
    /\ deferred' = "undefined"
    /\ resolved' = FALSE
    /\ promises' = <<>>
    /\ jobs' = <<>>
    /\ UNCHANGED <<second, mode, concurrently, capacity, disk>>

NextRerun == Next \/ RunAgain

\* the harness with repeated calls of processContent
RerunSpec == Init /\ [][NextRerun]_vars

\* a caller that does not wait for the suspended addWork calls addWork once
\* more while the capacity is used up: the head of addWork for that call
ConcurrentAdd ==
    /\ pc = "addWork"
    /\ deferred = "pending"
    /\ second = "none"
    /\ limit' = limit - 1
    /\ UNCHANGED <<run, mode, concurrently, capacity, disk, pc, i, vq, data, result,
                   error, resolved>>
    /\ IF MustWait(limit - 1)
       THEN /\ UNCHANGED <<jobs, promises>>
            /\ IF CanWait(deferred)
               THEN second' = "waiting" /\ deferred' = "pending"
               ELSE second' = "rejected" /\ deferred' = deferred
       ELSE /\ second' = "started"
            /\ StartWorker(data)
            /\ UNCHANGED deferred

NextLimiter == Next \/ ConcurrentAdd

\* the limiter driven by processContent and by one unserialized caller
LimiterSpec == Init /\ [][NextLimiter]_vars

\* every enabled callback is eventually run: the event loop never starves, and
\* every worker thread eventually exits
FairSpec == Spec /\ WF_vars(Next)

\* ------------------------------------------------------------- properties
Folders == 1..NumEntries
JobIds == 1..Len(jobs)

\* the jobs admitted through addWork that were started and have not settled
InFlight == {j \in JobIds : jobs[j].thread # "inline" /\ jobs[j].fut = "pending"}

\* C1 (bounded concurrency): in every reachable state the number of jobs
\* started through ConcurrencyLimiter.addWork and not yet settled is at most
\* the capacity the limiter was constructed with.
C1_BoundedConcurrency == Cardinality(InFlight) <= capacity

\* the capacity is used up by several jobs and a further admission is suspended
C1_Witness ==
    /\ pc = "addWork"
    /\ capacity >= 2
    /\ Cardinality(InFlight) = capacity

\* C2 (completion totality, as claimed): once the promise of waitAll, and so
\* of processContent in concurrent mode, has settled (fulfilled or rejected
\* with a job's error), no job admitted through addWork is still unsettled.
C2_CompletionTotality ==
    (concurrently /\ result # "pending" /\ error \in {"none", "job"})
        => \A j \in JobIds : jobs[j].fut # "pending"

\* C3 (all-pass or failure): in both modes, whenever processContent has
\* fulfilled, every job it submitted has settled successfully; so a run in
\* which some job failed never fulfils.
C3_AllPassOrFailure ==
    /\ result = "fulfilled" => \A j \in JobIds : jobs[j].fut = "fulfilled"
    /\ (\E j \in JobIds : jobs[j].fut = "rejected") => result # "fulfilled"

\* a concurrent run of several jobs has fulfilled
C3_Witness ==
    /\ result = "fulfilled"
    /\ concurrently
    /\ Len(jobs) >= 2

\* C4 (no deadlock, as claimed): when every started job eventually settles,
\* every suspended admission is eventually resumed and processContent
\* eventually settles.
C4_NoDeadlock == <>(result # "pending")

\* the first entry at which the run aborts without any job having failed:
\* cleanFailedSnapshots throws or the Write precondition fails
Aborts(e) ==
    /\ e.isDir /\ e.hasMsg
    /\ \/ e.cur /\ e.failed \in {"mixed", "dirs"}
       \/ mode = "Write" /\ (~e.cur \/ StampFile \notin DOMAIN e.files)
FirstAbort ==
    IF \E f \in Folders : Aborts(disk[f])
    THEN CHOOSE f \in Folders :
            Aborts(disk[f]) /\ \A g \in Folders : Aborts(disk[g]) => f <= g
    ELSE NumEntries + 1

\* the number of jobs of one folder in a run in which every job succeeds
JobCount(f) ==
    IF ~(disk[f].isDir /\ disk[f].hasMsg) \/ f >= FirstAbort THEN 0
    ELSE IF mode = "Validate"
         THEN (IF disk[f].src THEN Cardinality(DOMAIN disk[f].arch) ELSE 0)
         ELSE 1

RECURSIVE SumJobs(_)
SumJobs(f) == IF f = 0 THEN 0 ELSE JobCount(f) + SumJobs(f - 1)

\* C5 (failure isolation, as claimed): every job that is started when all
\* jobs succeed is eventually started also when some jobs fail.
C5_FailureIsolation == <>(Len(jobs) >= SumJobs(NumEntries))

\* the version stamp of folder f is rewritten in this step
StampRewritten(f) ==
    /\ StampFile \in DOMAIN disk'[f].files
    /\ StampVersion(disk'[f]) # StampVersion(disk[f])

\* C6 (Write-mode stamp ordering, as claimed): in both modes the version
\* stamp of a folder is rewritten only after the replay job of that folder
\* has completed, never while that job is waiting or running.
C6_StampAfterJob ==
    [][\A f \in Folders :
          StampRewritten(f) =>
             /\ \E j \in 1..Len(jobs') : jobs'[j].folder = f
             /\ \A j \in 1..Len(jobs') :
                   jobs'[j].folder = f => jobs'[j].fut = "fulfilled"]_vars

\* a job is started in this step
JobStarted == Len(jobs') = Len(jobs) + 1

\* C7 (Write-mode migration ordering): when the replay job of a folder is
\* started in Write mode, src_snapshots/<version> exists for the version
\* the stamp held, and holds every file of current_snapshots with the
\* content it had before the job.
C7_MigrationBeforeJob ==
    [][(mode = "Write" /\ JobStarted) =>
          LET f == jobs'[Len(jobs')].folder
              v == StampVersion(disk[f])
          IN /\ disk'[f].src
             /\ v \in DOMAIN disk'[f].arch
             /\ \A n \in DOMAIN disk[f].files :
                   /\ n \in DOMAIN disk'[f].arch[v]
                   /\ disk'[f].arch[v][n] = disk[f].files[n]]_vars

\* a Write job runs on a folder whose stale archive v1 was overwritten
C7_Witness ==
    /\ mode = "Write"
    /\ \E j \in JobIds :
          /\ jobs[j].fut = "pending"
          /\ "v1" \in DOMAIN disk[jobs[j].folder].arch
          /\ disk[jobs[j].folder].arch["v1"][SnapFile] = "new"
          /\ OldFile \in DOMAIN disk[jobs[j].folder].arch["v1"]

\* the source directories of the jobs of folder f, in submission order
InitDirs(f) ==
    LET js == SelectSeq(jobs, LAMBDA j : j.folder = f)
    IN [k \in 1..Len(js) |-> js[k].init]

\* the version folders of folder f, in listing order
VersionDirs(f) ==
    LET vs == SelectSeq(VersionOrder, LAMBDA v : v \in DOMAIN disk[f].arch)
    IN [k \in 1..Len(vs) |-> <<f, "src_snapshots", vs[k]>>]

IsPrefix(s, t) == Len(s) <= Len(t) /\ \A k \in 1..Len(s) : s[k] = t[k]

C9_SkipNotFail ==
    [][(i' # i /\ i <= NumEntries /\ ~(disk[i].isDir /\ disk[i].hasMsg)) =>
          /\ disk' = disk
          /\ jobs' = jobs
          /\ promises' = promises
          /\ limit' = limit
          /\ deferred' = deferred
          /\ result' = result
          /\ error' = error
          /\ pc' = "loop"
          /\ i' = i + 1]_vars

\* a folder without messages.json that holds FailedSnapshots and a baseline
\* was passed over in a run that went on to start a job
C9_Witness ==
    /\ i > 1
    /\ ~disk[1].hasMsg
    /\ disk[1].isDir
    /\ disk[1].failed = "files"
    /\ Len(jobs) >= 1

\* the orchestrator takes this step, not a worker
OrchestratorStep == pc' # pc \/ i' # i

\* C10 (Write-mode precondition): the iteration for a folder that lacks
\* current_snapshots or its snapshotVersion.json rejects processContent with
\* an assertion error, and creates no archive folder, copies no file, starts
\* no job and writes no stamp.
C10_WritePrecondition ==
    [][(/\ mode = "Write"
        /\ pc = "loop"
        /\ i <= NumEntries
        /\ disk[i].isDir /\ disk[i].hasMsg
        /\ ~disk[i].cur \/ StampFile \notin DOMAIN disk[i].files
        /\ OrchestratorStep) =>
          /\ result' = "rejected"
          /\ error' = "assert"
          /\ disk' = disk
          /\ jobs' = jobs
          /\ promises' = promises]_vars

\* the run was rejected at a folder without stamp while earlier jobs run
C10_Witness ==
    /\ mode = "Write"
    /\ pc = "done"
    /\ error = "assert"
    /\ i <= NumEntries
    /\ disk[i].cur
    /\ StampFile \notin DOMAIN disk[i].files
    /\ \E j \in JobIds : jobs[j].fut = "pending"

\* C11 (folder exclusivity, as claimed): no two jobs that are in flight at
\* the same time were given the same input folder or the same output folder.
C11_FolderExclusivity ==
    \A j, k \in JobIds :
        (j # k /\ jobs[j].fut = "pending" /\ jobs[k].fut = "pending") =>
            /\ InDirName(jobs[j]) # InDirName(jobs[k])
            /\ OutDirName(jobs[j]) # OutDirName(jobs[k])

\* the orchestrator runs the Write-mode migration of folder f in this step
Migrating(f) ==
    /\ mode = "Write"
    /\ pc = "loop"
    /\ i = f
    /\ disk[f].isDir /\ disk[f].hasMsg
    /\ disk[f].cur /\ StampFile \in DOMAIN disk[f].files
    /\ pc' # pc \/ i' # i

\* src_snapshots/v of entry e holds the baseline of e, as a migration with
\* stamp v leaves it
HoldsBaseline(e, v) ==
    /\ v \in DOMAIN e.arch
    /\ \A n \in DOMAIN e.files :
          n \in DOMAIN e.arch[v] /\ e.arch[v][n] = e.files[n]

\* C12 (Write-mode migration idempotence): a migration of a folder that was
\* already migrated with the same stamp value and baseline leaves every
\* archive folder with the same files and contents; a migration with a stamp
\* value that has no archive folder yet adds one and keeps the others.
C12_MigrationIdempotent ==
    [][\A f \in Folders :
          Migrating(f) =>
             LET v == StampVersion(disk[f])
             IN /\ DOMAIN disk'[f].arch = DOMAIN disk[f].arch \cup {v}
                /\ HoldsBaseline(disk[f], v) => disk'[f].arch = disk[f].arch]_vars

\* the third Write run has migrated folder 1 again with the stamp the second
\* run migrated it with; the folder has the archives of two stamp values
C12_Witness ==
    /\ mode = "Write"
    /\ run = 3
    /\ i > 1
    /\ disk[1].isDir /\ disk[1].hasMsg
    /\ DOMAIN disk[1].arch = {"v1", pkgVersion}
    /\ HoldsBaseline(disk[1], pkgVersion)

\* the jobs run in a worker thread
WorkerJobs == {j \in JobIds : jobs[j].thread # "inline"}

\* C13 (worker outcome mapping): the future of a worker job is rejected by a
\* message, by an error event and by an exit with a nonzero code, is
\* fulfilled only by an exit with code 0 while it is pending, and does not
\* change once it has settled.
C13_WorkerOutcome ==
    [][\A j \in WorkerJobs :
          LET a == jobs[j]
              b == jobs'[j]
          IN /\ a.fut # "pending" => b.fut = a.fut
             /\ (a.thread = "running" /\ b.thread = "running" /\ b # a) =>
                   (a.fut = "pending" /\ b.fut = "rejected")
             /\ (a.thread = "running" /\ b.thread = "exited" /\ a.fut = "pending") =>
                   b.fut = (IF b.code # 0 THEN "rejected" ELSE "fulfilled")
             /\ (a.fut = "pending" /\ b.fut = "fulfilled") =>
                   (a.thread = "running" /\ b.thread = "exited" /\ b.code = 0)]_vars

\* one worker reported a failure and then exited with code 0, one exited
\* with code 1, one exited with code 0
C13_Witness ==
    /\ \E j \in WorkerJobs : jobs[j].fut = "rejected" /\ jobs[j].code = 0
    /\ \E j \in WorkerJobs : jobs[j].fut = "rejected" /\ jobs[j].code = 1
    /\ \E j \in WorkerJobs : jobs[j].fut = "fulfilled"

\* C14 (worker teardown, as claimed): the future of a worker job settles only
\* after its thread has exited, and when processContent has settled no
\* worker thread it started is still running.
C14_WorkerTeardown ==
    /\ \A j \in WorkerJobs : jobs[j].fut # "pending" => jobs[j].thread = "exited"
    /\ result # "pending" => \A j \in WorkerJobs : jobs[j].thread = "exited"

\* C15 (inline equivalence, as claimed): a run has submitted the jobs the
\* inline run submits for the same outcomes of the jobs.  The inline run
\* submits a job only after every earlier job has fulfilled, so in either
\* mode no job follows one that is rejected.
C15_InlineEquivalence ==
    \A j, k \in JobIds : j < k => jobs[j].fut # "rejected"

\* C16 (slot release, as claimed): when the future of a job admitted by
\* addWork settles, fulfilled or rejected, limit is incremented by one and a
\* pending continuation is resolved and cleared.
C16_SlotRelease ==
    [][\A j \in WorkerJobs :
          (jobs[j].fut = "pending" /\ jobs'[j].fut # "pending") =>
              /\ limit' = limit + 1
              /\ deferred = "pending" => (deferred' = "undefined" /\ resolved')]_vars

\* C17 (single pending admitter): in every run of processContent the
\* assertion on entry to the waiting branch of addWork does not fail, at most
\* one admission is beyond the capacity, and a pending continuation is the
\* one the orchestrator is suspended on.
C17_SinglePendingAdmitter ==
    /\ error # "assert57"
    /\ limit >= -1
    /\ deferred = "pending" => (pc = "addWork" /\ ~resolved /\ limit = -1)

\* the second version of a folder waits behind a full limiter
C17_Witness ==
    /\ mode = "Validate"
    /\ capacity = 2
    /\ pc = "addWork"
    /\ deferred = "pending"
    /\ Len(jobs) >= 2

\* C18 (concurrent admission is rejected): an addWork call made while the
\* capacity is used up and another call is suspended fails on the assertion;
\* its job is not started, then or later.
C18_ConcurrentAdmissionRejected ==
    [][/\ second' # second =>
             /\ second' = "rejected"
             /\ jobs' = jobs
             /\ promises' = promises
             /\ deferred' = deferred
       /\ second = "rejected" => second' = "rejected"]_vars

\* the unserialized call has failed while two jobs ran and a third waited
C18_Witness ==
    /\ second = "rejected"
    /\ capacity = 2
    /\ pc = "addWork"
    /\ limit = -2

\* C19 (no double resolution): with the serialized admissions of
\* processContent no assertion of the limiter fires, neither in addWork nor
\* in the completion callback, and a resolved continuation is that of the one
\* suspended admission, cleared, with limit >= 0.
C19_NoDoubleResolution ==
    /\ error \notin {"assert57", "assert60", "assert61"}
    /\ \A j \in JobIds : ~(jobs[j].fut = "fulfilled" /\ jobs[j].p = "rejected")
    /\ resolved => (pc = "addWork" /\ deferred = "undefined" /\ limit >= 0)

\* two jobs have completed before the suspended admission resumed
C19_Witness ==
    /\ resolved
    /\ pc = "addWork"
    /\ limit >= 1

\* cleanFailedSnapshots has run for folder f
Cleaned(f) ==
    /\ disk[f].isDir /\ disk[f].hasMsg
    /\ \/ f < i
       \/ f = i /\ pc # "loop"
       \/ \E j \in JobIds : jobs[j].folder = f

\* C20 (pre-run cleanup, as claimed): once cleanFailedSnapshots has run for
\* an eligible folder, which is before any job of that folder, FailedSnapshots
\* does not exist whatever it contained, and the cleanup raised no error.
C20_PreRunCleanup ==
    \A f \in Folders :
        Cleaned(f) => (disk[f].failed = "absent" /\ error # "fs")

\* the archive folders of folder f that a step may create or write: that of
\* the stamp value when the step is the Write-mode migration of f, else none
Writable(f) ==
    IF Migrating(f) THEN {disk[f].files[StampFile]} ELSE {}

\* C21 (archive frame): a Write-mode migration of a folder whose stamp holds
\* v creates or modifies only src_snapshots/v of that folder; every other
\* archive folder, of that folder and of the others, keeps its files, no
\* archive folder is removed, and a step creates at most the one folder of
\* the stamp value, and none when that folder exists.
C21_ArchiveFrame ==
    [][\A f \in Folders :
          /\ DOMAIN disk[f].arch \subseteq DOMAIN disk'[f].arch
          /\ DOMAIN disk'[f].arch \subseteq DOMAIN disk[f].arch \cup Writable(f)
          /\ \A w \in DOMAIN disk[f].arch \ Writable(f) :
                disk'[f].arch[w] = disk[f].arch[w]]_vars

\* folder 1 was migrated twice, with the stamp values "v1" and then that of
\* the build: the first wrote into the archive it had, the second created
\* one; folder 2, not eligible, has kept its archive
C21_Witness ==
    /\ mode = "Write"
    /\ run = 2
    /\ i > 2
    /\ disk[1].isDir /\ disk[1].hasMsg
    /\ DOMAIN disk[1].arch = {"v1", pkgVersion}
    /\ disk[1].arch["v1"] = CopyInto(Archived("v1"), Baseline("v1"))
    /\ ~disk[2].hasMsg
    /\ disk[2].arch = ("v1" :> Archived("v1"))

\* C22 (job parameters follow the mode): every job submitted by
\* processContent, and the ReplayArgs processOneFile builds for it, carry the
\* mode of the run, the snapshot interval 50 when the mode is Stress and 1000
\* in every other mode, and a source-snapshot directory only when the mode is
\* Validate.
C22_JobParameters ==
    \A j \in JobIds :
        /\ jobs[j].mode = mode
        /\ jobs[j].snapFreq = (IF mode = "Stress" THEN StressSnapFreq
                                                 ELSE DefaultSnapFreq)
        /\ replayArgs(jobs[j]).snapFreq = jobs[j].snapFreq
        /\ jobs[j].init # NoPath => mode = "Validate"
        /\ replayArgs(jobs[j]).initializeFromSnapshotsDir = jobs[j].init

\* a Stress run has submitted the jobs of two folders, with interval 50 and
\* without a source-snapshot directory
C22_Witness ==
    /\ mode = "Stress"
    /\ Len(jobs) >= 2
    /\ \A j \in JobIds :
          /\ replayArgs(jobs[j]).snapFreq = StressSnapFreq
          /\ replayArgs(jobs[j]).expandFiles
          /\ replayArgs(jobs[j]).initializeFromSnapshotsDir = NoPath

====
